---- MODULE Spec2Model ----
(***************************************************************************)
(* NodeWrapper (nipype/pipeline/node_wrapper.py): one pipeline node that   *)
(* wraps an interface, caches its run behind a hash marker in an output    *)
(* directory, stages file inputs there and fans out over one iterfield.    *)
(***************************************************************************)
EXTENDS Integers, Sequences, FiniteSets, TLC

VARIABLES
    phase,                  \* "new" | "ready" | "error": NodeWrapper.__init__
    disk_based,             \* self.disk_based
    overwrite,              \* self.overwrite
    iterfield,              \* self.iterfield, a sequence of input names
    output_directory_base,  \* self.output_directory_base: "None" or "set"
    baseExists,             \* the directory output_directory_base names exists
    inputs,                 \* self._interface.inputs: cwd, infile, x
    result,                 \* self._result
    files,                  \* the paths that exist on the file system
    markers,                \* the marker files _0x<hash>.txt in the output directory
    outdirExists,           \* the output directory <base>/<name> exists
    lastRun,                \* what the run() that has just ended did
    prevRun,                \* summary of the run() right before it
    lastExecFailed,         \* the most recent execute-branch run() saw a non-zero return code
    lastGood,               \* the inputs the most recent execute-branch run() decided on,
                            \* if it returned and left a marker file
    caller,                 \* a mutable value the caller holds, and which inputs are
                            \* bound to that very object
    heap                    \* the default-argument objects of __init__, a second node,
                            \* and which attributes share them

vars == <<phase, disk_based, overwrite, iterfield, output_directory_base, baseExists,
          inputs, result, files, markers, outdirExists, lastRun, prevRun, lastExecFailed,
          lastGood, caller, heap>>

(***************************************************************************)
(* Bounds                                                                  *)
(***************************************************************************)
MaxLen == 2        \* longest sequence bound to the iterfield input x
MaxFiles == 2      \* longest sequence of paths bound to the file input
MaxIterfield == 2  \* longest iterfield list an in-place append builds

(***************************************************************************)
(* Values.  A Python value bound to an input is None, a scalar or a list.  *)
(***************************************************************************)
None == [kind |-> "none", items |-> <<>>]
Scalar(v) == [kind |-> "scalar", items |-> <<v>>]
List(s) == [kind |-> "list", items |-> s]

IsList(val) == val.kind = "list"

Elems == 1..MaxLen
RCs == {-1, 0, 1}          \* return codes an interface run can report
OutKey == "out"            \* the output name of the wrapped interface

\* the sequence k, k-1, .., 1: distinct elements, not in ascending order
Countdown(k) == [i \in 1..k |-> k + 1 - i]

\* values the caller binds to the plain input x
XVals == {None, Scalar(1)} \cup {List(Countdown(k)) : k \in {0, 1, MaxLen}}

\* paths: a directory and a file name
OutDir == "out"
ExtDir == "ext"
NameOf(i) == IF i = 1 THEN "f1" ELSE IF i = 2 THEN "f2" ELSE "f3"
Path(d, n) == [dir |-> d, name |-> n]
ExtPaths == {Path(ExtDir, NameOf(i)) : i \in 1..MaxFiles}
ExtSeq(k) == [i \in 1..k |-> Path(ExtDir, NameOf(i))]

\* values the caller binds to the file input infile
FileVals == {None, Scalar(Path(ExtDir, NameOf(1)))} \cup {List(ExtSeq(k)) : k \in {1, MaxFiles}}

\* keyword arguments the caller passes to update()
UpdateOpts == {[x |-> Scalar(1), infile |-> None],
               [x |-> List(Countdown(MaxLen)), infile |-> List(ExtSeq(MaxFiles))]}

IterfieldArgs == {<<>>, <<"x">>, <<"x", "infile">>}

(***************************************************************************)
(* nipype.utils.filemanip                                                  *)
(***************************************************************************)
filename_to_list(val) == IF IsList(val) THEN val.items ELSE <<val.items[1]>>

list_to_filename(filelist) ==
    IF Len(filelist) > 1 THEN List(filelist) ELSE Scalar(filelist[1])

fname_presuffix(f, newpath) == [dir |-> newpath, name |-> f.name]

\* cleandir(outdir): removes the files of the output directory, markers too
cleandir(fs, mks) == [files |-> {f \in fs : f.dir # OutDir}, markers |-> {}]

\* copyfiles(filelist, [dest]): copies file by file, stops at the first
\* source that cannot be read or destination that cannot be written
RECURSIVE copyfiles(_, _, _, _)
copyfiles(filelist, fs, destExists, newfiles) ==
    IF filelist = <<>> THEN [ok |-> TRUE, files |-> fs, newfiles |-> newfiles]
    ELSE LET f == Head(filelist)
             destfile == fname_presuffix(f, OutDir)
         IN IF f \in fs /\ destExists
            THEN copyfiles(Tail(filelist), fs \cup {destfile}, destExists,
                           Append(newfiles, destfile))
            ELSE [ok |-> FALSE, files |-> fs, newfiles |-> newfiles]

(***************************************************************************)
(* hash_inputs                                                             *)
(***************************************************************************)
\* str(self.inputs): the input names in sorted order with their values
InputStr(inp) == <<<<"cwd", inp.cwd>>, <<"infile", inp.infile>>, <<"x", inp.x>>>>

\* hashlib.md5(...).hexdigest(): a digest that tells different strings apart
hash_inputs(inp) == <<"md5", InputStr(inp)>>

hashfile_of(inp) == [name |-> hash_inputs(inp), text |-> InputStr(inp)]

(***************************************************************************)
(* set_input / update                                                      *)
(***************************************************************************)
set_input(inp, parameter, val) == [inp EXCEPT ![parameter] = val]

(***************************************************************************)
(* _run_interface                                                          *)
(***************************************************************************)
\* list.insert(i, val), i counted from zero: past the end it appends
PyInsert(s, i, val) ==
    IF i >= Len(s) THEN Append(s, val)
    ELSE SubSeq(s, 1, i) \o <<val>> \o SubSeq(s, i + 1, Len(s))

NoResult == [kind |-> "none", runtime |-> <<>>, outputs |-> <<>>]

\* the wrapped interface: its one output echoes the input x when produced
InterfaceOutputs(inp, produced) == IF produced THEN <<inp.x>> ELSE <<>>

\* every call of the interface produces its output
AllProduced(n) == [i \in 1..n |-> TRUE]

\* one step of a run(): what was done and the iterfield binding it saw
Event(op, seen) == [op |-> op, seen |-> seen]

Call(execute, seen) == Event(IF execute THEN "execute" ELSE "aggregate", seen)

\* itervals = self.inputs[self.iterfield[0]], wrapped in a list if not one
Itervals(val) ==
    IF IsList(val) THEN [i \in 1..Len(val.items) |-> Scalar(val.items[i])]
    ELSE <<val>>

\* outputs[key].insert(i, val), creating the list under a new key
OutputsInsert(outs, i, val) == PyInsert(outs, i, val)

\* the value set_input binds for iteration i
IterBinding(itervals, i) == itervals[i]

\* mutant: the binding is left at the last element
RestoreIterfield_KeepLast(notlist, itervals) ==
    IF itervals = <<>> THEN List(<<>>) ELSE itervals[Len(itervals)]

\* the binding after the loop: itervals.pop() if it was wrapped, else itervals
RestoreIterfield(notlist, itervals) ==
    IF notlist THEN itervals[Len(itervals)]
    ELSE List([i \in 1..Len(itervals) |-> itervals[i].items[1]])

RECURSIVE FanOutLoop(_, _, _, _, _, _, _)
FanOutLoop(i, itervals, key, execute, rcs, prods, acc) ==
    IF i > Len(itervals) THEN acc
    ELSE LET inp == set_input(acc.inputs, key, IterBinding(itervals, i))
             outs == InterfaceOutputs(inp, prods[i])
             runtime == IF execute THEN PyInsert(acc.result.runtime, i - 1, rcs[i])
                        ELSE acc.result.runtime
             outputs == IF outs = <<>> THEN acc.result.outputs
                        ELSE OutputsInsert(acc.result.outputs, i - 1, outs[1])
         IN FanOutLoop(i + 1, itervals, key, execute, rcs, prods,
                       [inputs |-> inp,
                        result |-> [kind |-> "list", runtime |-> runtime, outputs |-> outputs],
                        calls |-> Append(acc.calls, Call(execute, inp[key]))])

FansOut(itf) == Len(itf) = 1

\* the number of interface calls _run_interface makes
NumCalls(inp, itf) == IF FansOut(itf) THEN Len(Itervals(inp[itf[1]])) ELSE 1

_run_interface(inp, itf, execute, rcs, prods) ==
    IF FansOut(itf)
    THEN LET key == itf[1]
             notlist == ~IsList(inp[key])
             itervals == Itervals(inp[key])
             loop == FanOutLoop(1, itervals, key, execute, rcs, prods,
                                [inputs |-> inp,
                                 result |-> [kind |-> "list", runtime |-> <<>>, outputs |-> <<>>],
                                 calls |-> <<>>])
         IN [loop EXCEPT !.inputs = set_input(loop.inputs, key, RestoreIterfield(notlist, itervals))]
    ELSE [inputs |-> inp,
          result |-> [kind |-> "single",
                      runtime |-> IF execute THEN <<rcs[1]>> ELSE <<>>,
                      outputs |-> InterfaceOutputs(inp, prods[1])],
          calls |-> <<Call(execute, None)>>]

(***************************************************************************)
(* run                                                                     *)
(***************************************************************************)
\* _output_directory: a base that is not set becomes a fresh mkdtemp() root
_output_directory(base, exists) ==
    IF base = "None" THEN [base |-> "set", baseExists |-> TRUE]
    ELSE [base |-> base, baseExists |-> exists]

\* _make_output_dir: raises if the directory exists or if os.mkdir fails
_make_output_dir(exists, parentExists) ==
    [raised |-> exists \/ ~parentExists,
     exists |-> exists \/ parentExists]

\* lines 128-133: stage the file input and rebind it to the staged copies
StageInputs(inp, fs, destExists) ==
    IF inp.infile.kind = "none"
    THEN [ok |-> TRUE, inputs |-> inp, files |-> fs, staged |-> <<>>]
    ELSE LET cp == copyfiles(filename_to_list(inp.infile), fs, destExists, <<>>)
         IN [ok |-> cp.ok,
             inputs |-> IF cp.ok THEN [inp EXCEPT !.infile = list_to_filename(cp.newfiles)]
                        ELSE inp,
             files |-> cp.files,
             staged |-> cp.newfiles]

\* mutant: a staged copy that is present is copied again
NeedsCopy_Always(newfile, fs) == TRUE

\* lines 160 and 167: not os.path.exists(newfile)
NeedsCopy(newfile, fs) == newfile \notin fs

\* lines 165-172: stage the copies that are missing, rebind element by element
RECURSIVE SkipStageLoop(_, _, _, _)
SkipStageLoop(i, infiles, destExists, acc) ==
    IF i > Len(infiles) THEN acc
    ELSE LET f == infiles[i]
             newfile == fname_presuffix(f, OutDir)
             cp == IF NeedsCopy(newfile, acc.files)
                   THEN copyfiles(<<f>>, acc.files, destExists, <<>>)
                   ELSE [ok |-> TRUE, files |-> acc.files, newfiles |-> <<>>]
         IN IF ~cp.ok THEN [acc EXCEPT !.ok = FALSE]
            ELSE SkipStageLoop(i + 1, infiles, destExists,
                               [ok |-> TRUE,
                                items |-> [acc.items EXCEPT ![i] = newfile],
                                files |-> cp.files,
                                staged |-> acc.staged \o cp.newfiles])

\* lines 158-172
SkipStageInputs(inp, fs, destExists) ==
    IF inp.infile.kind = "none"
    THEN [ok |-> TRUE, inputs |-> inp, files |-> fs, staged |-> <<>>]
    ELSE LET infiles == inp.infile.items
             loop == SkipStageLoop(1, infiles, destExists,
                                   [ok |-> TRUE, items |-> infiles, files |-> fs,
                                    staged |-> <<>>])
         IN [ok |-> loop.ok,
             inputs |-> [inp EXCEPT !.infile.items = loop.items],
             files |-> loop.files,
             staged |-> loop.staged]

\* line 124, os.path.exists(hashfile): a file of that name is there, whatever
\* it holds
MarkerExists(hashfile, mks) == \E mk \in mks : mk.name = hashfile.name

\* mutant: overwrite is not consulted
MustExecute_IgnoreOverwrite(ovw, hashfile, mks) == ~MarkerExists(hashfile, mks)

\* mutant: the marker is not consulted
MustExecute_Always(ovw, hashfile, mks) == TRUE

\* line 124
MustExecute(ovw, hashfile, mks) == ovw \/ ~MarkerExists(hashfile, mks)

\* mutant: every node is taken for a disk-based one
DiskBased_Always(self) == TRUE

\* line 112
DiskBased(self) == self.disk_based

\* lines 112-133 and 155-172: everything run() does before _run_interface
run_prepare(self) ==
    IF ~DiskBased(self)
    THEN [base |-> self.base, baseExists |-> self.baseExists,
          outdirExists |-> self.outdirExists,
          inputs |-> self.inputs, decided |-> self.inputs,
          files |-> self.files, markers |-> self.markers,
          branch |-> "direct", hit |-> FALSE, hashfile |-> hashfile_of(self.inputs),
          events |-> <<>>, staged |-> <<>>, missing |-> {}, ok |-> TRUE]
    ELSE LET od == _output_directory(self.base, self.baseExists)
             mk == _make_output_dir(self.outdirExists, od.baseExists)
             inp == [self.inputs EXCEPT !.cwd = Scalar(OutDir)]
             hashfile == hashfile_of(inp)
             hit == MarkerExists(hashfile, self.markers)
         IN IF MustExecute(self.overwrite, hashfile, self.markers)
            THEN LET cleaned == cleandir(self.files, self.markers)
                     st == StageInputs(inp, cleaned.files, mk.exists)
                 IN [base |-> od.base, baseExists |-> od.baseExists,
                     outdirExists |-> mk.exists,
                     inputs |-> st.inputs, decided |-> inp,
                     files |-> st.files, markers |-> cleaned.markers,
                     branch |-> "execute", hit |-> hit, hashfile |-> hashfile,
                     events |-> <<Event("clean", None)>>
                                \o [i \in 1..Len(st.staged) |-> Event("stage", None)],
                     staged |-> st.staged, missing |-> {}, ok |-> st.ok]
            ELSE LET st == SkipStageInputs(inp, self.files, mk.exists)
                 IN [base |-> od.base, baseExists |-> od.baseExists,
                     outdirExists |-> mk.exists,
                     inputs |-> st.inputs, decided |-> inp,
                     files |-> st.files, markers |-> self.markers,
                     branch |-> "skip", hit |-> hit, hashfile |-> hashfile,
                     events |-> [i \in 1..Len(st.staged) |-> Event("stage", None)],
                     staged |-> st.staged,
                     missing |-> {fname_presuffix(inp.infile.items[i], OutDir) :
                                    i \in 1..Len(inp.infile.items)} \ self.files,
                     ok |-> st.ok]

\* lines 135-142
RECURSIVE MaxReturnCode(_, _)
MaxReturnCode(runtime, returncode) ==
    IF runtime = <<>> THEN returncode
    ELSE MaxReturnCode(Tail(runtime),
                       IF Head(runtime) > returncode THEN Head(runtime) ELSE returncode)

ReturnCode(res) ==
    IF res.kind = "list" THEN MaxReturnCode(res.runtime, 0) ELSE res.runtime[1]

\* mutant: the marker is written whatever the return code
Succeeded_Always(returncode) == TRUE

\* line 143
Succeeded(returncode) == returncode = 0

\* what can happen in lines 144-149: the marker is written, open() raises
\* IOError, or writelines()/close() raises it after open() has created the file
IOOutcomes == {"ok", "open fails", "write fails"}

\* what open() can do when the directory it writes to is there, or is not
OpenOutcomes(dirExists) == IF dirExists THEN IOOutcomes ELSE {"open fails"}

\* lines 144-149
WriteMarker(mks, hashfile, io) ==
    IF io = "ok"
    THEN [markers |-> mks \cup {hashfile}, created |-> TRUE, written |-> TRUE]
    ELSE IF io = "write fails"
    THEN [markers |-> mks \cup {[name |-> hashfile.name, text |-> <<>>]},
          created |-> TRUE, written |-> FALSE]
    ELSE [markers |-> mks, created |-> FALSE, written |-> FALSE]

\* lines 151-154: the message needs runtime.stderr, which a list does not have
Failure(res) == IF res.kind = "list" THEN "AttributeError" ELSE "StandardError"

\* lines 134-154 and 173-179: _run_interface, the marker, the outcome
run_finish(pre, oldResult, itf, rcs, prods, io) ==
    IF ~pre.ok
    THEN [inputs |-> pre.inputs, result |-> oldResult, markers |-> pre.markers,
          events |-> pre.events, outcome |-> "StagingError", markerWritten |-> FALSE]
    ELSE LET ri == _run_interface(pre.inputs, itf, pre.branch # "skip", rcs, prods)
             events == pre.events \o ri.calls
         IN IF pre.branch = "execute"
            THEN IF Succeeded(ReturnCode(ri.result))
                 THEN LET wm == WriteMarker(pre.markers, pre.hashfile, io)
                      IN [inputs |-> ri.inputs, result |-> ri.result,
                          markers |-> wm.markers,
                          events |-> IF wm.created
                                     THEN Append(events, Event("marker", None))
                                     ELSE events,
                          outcome |-> "returned", markerWritten |-> wm.written]
                 ELSE [inputs |-> ri.inputs, result |-> ri.result, markers |-> pre.markers,
                       events |-> events, outcome |-> Failure(ri.result),
                       markerWritten |-> FALSE]
            ELSE [inputs |-> ri.inputs, result |-> ri.result, markers |-> pre.markers,
                  events |-> events, outcome |-> "returned", markerWritten |-> FALSE]

(***************************************************************************)
(* The node as a state machine                                             *)
(***************************************************************************)
NoInputs == [cwd |-> None, infile |-> None, x |-> None]

\* lastRun: the record of the run() that has just returned or raised; it is
\* forgotten as soon as the caller or the file system changes anything
NoRun == [branch |-> "none", hit |-> FALSE, loopVal |-> None, events |-> <<>>,
          rcs |-> <<>>, prods |-> <<>>, outcome |-> "none", markerWritten |-> FALSE,
          decided |-> [cwd |-> None, infile |-> None, x |-> None], missing |-> {},
          io |-> "none", sourcesExisted |-> TRUE]

NoPrev == [branch |-> "none", outcome |-> "none", markerWritten |-> FALSE,
           outputs |-> <<>>]

Summary(run, res) == [branch |-> run.branch, outcome |-> run.outcome,
                      markerWritten |-> run.markerWritten, outputs |-> res.outputs]

\* the node's parameters a caller binds
Params == {"x", "infile"}

\* no value of the caller is bound to the node
NoCaller == [obj |-> None, shares |-> {}, setBy |-> [p \in Params |-> "none"],
             given |-> [p \in Params |-> None]]

\* the attributes of a node that have a mutable default argument (lines 54-55)
Attrs == {"iterfield", "iterables"}

\* a single node whose attributes are its own
NoHeap == [defaults |-> [iterfield |-> <<>>, iterables |-> {}],
           self |-> [iterables |-> {}, owns |-> Attrs],
           other |-> [constructed |-> FALSE, iterfield |-> <<>>, iterables |-> {},
                      owns |-> Attrs],
           touched |-> {}]

Init ==
    /\ phase = "new"
    /\ disk_based = FALSE
    /\ overwrite = FALSE
    /\ iterfield = <<>>
    /\ output_directory_base = "None"
    /\ baseExists = FALSE
    /\ inputs = NoInputs
    /\ result = NoResult
    /\ files = ExtPaths
    /\ markers = {}
    /\ outdirExists = FALSE
    /\ lastRun = NoRun
    /\ prevRun = NoPrev
    /\ lastExecFailed = FALSE
    /\ lastGood = NoInputs
    /\ caller = NoCaller
    /\ heap = NoHeap

\* NodeWrapper.__init__
ConstructFails(interface, itf, diskbased, base_directory) ==
    \/ interface = "None"
    \/ ~diskbased /\ base_directory # "None"

Construct ==
    /\ phase = "new"
    /\ \E interface \in {"None", "interface"}, itf \in IterfieldArgs,
          diskbased \in BOOLEAN, base_directory \in {"None", "good", "missing"},
          ovw \in BOOLEAN :
         IF ConstructFails(interface, itf, diskbased, base_directory)
         THEN /\ phase' = "error"
              /\ UNCHANGED <<disk_based, overwrite, iterfield, output_directory_base,
                             baseExists>>
         ELSE /\ phase' = "ready"
              /\ disk_based' = diskbased
              /\ iterfield' = itf
              /\ output_directory_base' = IF diskbased /\ base_directory # "None"
                                          THEN "set" ELSE "None"
              /\ baseExists' = (diskbased /\ base_directory = "good")
              /\ overwrite' = (diskbased /\ ovw)
    /\ UNCHANGED <<inputs, result, files, markers, outdirExists, lastRun, prevRun,
                   lastExecFailed, lastGood, caller, heap>>

\* NodeWrapper.set_input
SetInput ==
    /\ phase = "ready"
    /\ \/ \E val \in XVals : inputs' = set_input(inputs, "x", val)
       \/ \E val \in FileVals : inputs' = set_input(inputs, "infile", val)
    /\ lastRun' = NoRun
    /\ prevRun' = NoPrev
    /\ UNCHANGED <<phase, disk_based, overwrite, iterfield, output_directory_base, baseExists,
                   result, files, markers, outdirExists, lastExecFailed, lastGood, caller, heap>>

\* NodeWrapper.update
Update ==
    /\ phase = "ready"
    /\ \E opts \in UpdateOpts :
         inputs' = [inputs EXCEPT !.x = opts.x, !.infile = opts.infile]
    /\ lastRun' = NoRun
    /\ prevRun' = NoPrev
    /\ UNCHANGED <<phase, disk_based, overwrite, iterfield, output_directory_base, baseExists,
                   result, files, markers, outdirExists, lastExecFailed, lastGood, caller, heap>>

\* a staged copy disappears from the output directory (an incomplete prior run)
RemoveStaged ==
    /\ phase = "ready"
    /\ \E f \in files : f.dir = OutDir /\ files' = files \ {f}
    /\ lastRun' = NoRun
    /\ prevRun' = NoPrev
    /\ UNCHANGED <<phase, disk_based, overwrite, iterfield, output_directory_base, baseExists,
                   inputs, result, markers, outdirExists, lastExecFailed, lastGood, caller, heap>>

\* NodeWrapper.run
Run ==
    /\ phase = "ready"
    /\ LET self == [disk_based |-> disk_based, overwrite |-> overwrite,
                    base |-> output_directory_base, baseExists |-> baseExists,
                    inputs |-> inputs,
                    files |-> files, markers |-> markers, outdirExists |-> outdirExists]
           pre == run_prepare(self)
           n == IF pre.ok THEN NumCalls(pre.inputs, iterfield) ELSE 0
           m == IF pre.branch = "skip" THEN 0 ELSE n
           prods == AllProduced(n)
       IN \E rcs \in [1..m -> RCs] :
          LET written == run_finish(pre, result, iterfield, rcs, prods, "ok")
              \* lines 143-144: the marker is written only after a success
              ios == IF pre.branch = "execute" /\ pre.ok /\ written.markerWritten
                     THEN OpenOutcomes(pre.outdirExists) ELSE {"none"}
          IN \E io \in ios :
            LET fin == IF io \in {"ok", "none"} THEN written
                       ELSE run_finish(pre, result, iterfield, rcs, prods, io)
            IN /\ inputs' = fin.inputs
               /\ result' = fin.result
               /\ files' = pre.files
               /\ markers' = fin.markers
               /\ outdirExists' = pre.outdirExists
               /\ output_directory_base' = pre.base
               /\ baseExists' = pre.baseExists
               /\ lastRun' = [branch |-> pre.branch, hit |-> pre.hit,
                              loopVal |-> IF FansOut(iterfield) THEN pre.inputs[iterfield[1]]
                                          ELSE None,
                              events |-> fin.events, rcs |-> rcs, prods |-> prods,
                              outcome |-> fin.outcome,
                              markerWritten |-> fin.markerWritten,
                              decided |-> pre.decided,
                              missing |-> pre.missing,
                              io |-> io,
                              sourcesExisted |->
                                  \A i \in 1..Len(inputs.infile.items) :
                                     inputs.infile.items[i] \in files]
               /\ prevRun' = Summary(lastRun, result)
               /\ lastGood' = IF pre.branch = "execute"
                              THEN IF fin.outcome = "returned"
                                      /\ io \in {"ok", "write fails"}
                                   THEN pre.decided
                                   ELSE NoInputs
                              ELSE lastGood
               /\ lastExecFailed' = IF pre.branch = "execute"
                                    THEN pre.ok /\ \E i \in 1..m : rcs[i] # 0
                                    ELSE lastExecFailed
    /\ UNCHANGED <<phase, disk_based, overwrite, iterfield, caller, heap>>

Next == Construct \/ SetInput \/ Update \/ RemoveStaged \/ Run

Spec == Init /\ [][Next]_vars

(***************************************************************************)
(* _run_interface on its own: every iterfield value, both modes, and an    *)
(* interface that may leave its output out                                 *)
(***************************************************************************)
AllSeqs(S, n) == UNION {[1..k -> S] : k \in 0..n}

FanOutXVals == {None} \cup {Scalar(e) : e \in Elems}
               \cup {List(s) : s \in AllSeqs(Elems, MaxLen)}

FanOutInit ==
    /\ phase = "ready"
    /\ disk_based = FALSE
    /\ overwrite = FALSE
    /\ iterfield = <<"x">>
    /\ output_directory_base = "None"
    /\ baseExists = FALSE
    /\ inputs \in {[cwd |-> None, infile |-> None, x |-> xv] : xv \in FanOutXVals}
    /\ result = NoResult
    /\ files = ExtPaths
    /\ markers = {}
    /\ outdirExists = FALSE
    /\ lastRun = NoRun
    /\ prevRun = NoPrev
    /\ lastExecFailed = FALSE
    /\ lastGood = NoInputs
    /\ caller = NoCaller
    /\ heap = NoHeap

FanOutRun ==
    /\ lastRun = NoRun
    /\ LET n == NumCalls(inputs, iterfield)
       IN \E execute \in BOOLEAN, prods \in [1..n -> BOOLEAN] :
          \E rcs \in [1..(IF execute THEN n ELSE 0) -> RCs] :
            LET ri == _run_interface(inputs, iterfield, execute, rcs, prods)
            IN /\ inputs' = ri.inputs
               /\ result' = ri.result
               /\ lastRun' = [branch |-> IF execute THEN "direct" ELSE "skip",
                              hit |-> ~execute,
                              loopVal |-> inputs[iterfield[1]],
                              events |-> ri.calls, rcs |-> rcs, prods |-> prods,
                              outcome |-> "returned", markerWritten |-> FALSE,
                              decided |-> inputs, missing |-> {}, io |-> "none",
                              sourcesExisted |-> TRUE]
    /\ UNCHANGED <<phase, disk_based, overwrite, iterfield, output_directory_base,
                   baseExists, files, markers, outdirExists, prevRun, lastExecFailed,
                   lastGood, caller, heap>>

FanOutNext == FanOutRun

FanOutSpec == FanOutInit /\ [][FanOutNext]_vars

(***************************************************************************)
(* set_input and update under a caller that keeps the value it passed and  *)
(* mutates it afterwards                                                   *)
(***************************************************************************)
\* the mutable values a caller passes: lists
CallerVals == {List(Countdown(k)) : k \in 0..MaxLen}

\* an object reference: the value, and whether the object is the caller's own
CallerObject == [value |-> caller.obj, shared |-> TRUE]

\* mutant: set_input binds the object it is given
BoundBySetInput_Reference(obj) == obj

\* lines 97-100: set_input binds a deep copy of the value, or of what the
\* producer returns
BoundBySetInput(obj) == [value |-> obj.value, shared |-> FALSE]

\* lines 220-221: Bunch.update binds the object it is given
BoundByUpdate(obj) == obj

\* the caller's view after parameter p was bound to ref
Bind(c, p, how, ref) ==
    [c EXCEPT !.shares = IF ref.shared THEN @ \cup {p} ELSE @ \ {p},
              !.setBy[p] = how,
              !.given[p] = ref.value]

AliasInit ==
    /\ phase = "ready"
    /\ disk_based = FALSE
    /\ overwrite = FALSE
    /\ iterfield = <<>>
    /\ output_directory_base = "None"
    /\ baseExists = FALSE
    /\ inputs = NoInputs
    /\ result = NoResult
    /\ files = ExtPaths
    /\ markers = {}
    /\ outdirExists = FALSE
    /\ lastRun = NoRun
    /\ prevRun = NoPrev
    /\ lastExecFailed = FALSE
    /\ lastGood = NoInputs
    /\ caller \in {[NoCaller EXCEPT !.obj = v] : v \in CallerVals}
    /\ heap = NoHeap

AliasFrame == UNCHANGED <<phase, disk_based, overwrite, iterfield, output_directory_base,
                          baseExists, result, files, markers, outdirExists, lastRun,
                          prevRun, lastExecFailed, lastGood, heap>>

\* NodeWrapper.set_input with the caller's object, or with a producer returning it
AliasSetInput ==
    /\ \E p \in Params, producer \in BOOLEAN :
         LET ref == BoundBySetInput(CallerObject)
         IN /\ inputs' = set_input(inputs, p, ref.value)
            /\ caller' = Bind(caller, p, IF producer THEN "producer" ELSE "set_input", ref)
    /\ AliasFrame

\* NodeWrapper.update with the caller's object
AliasUpdate ==
    /\ \E p \in Params :
         LET ref == BoundByUpdate(CallerObject)
         IN /\ inputs' = [inputs EXCEPT ![p] = ref.value]
            /\ caller' = Bind(caller, p, "update", ref)
    /\ AliasFrame

\* the caller changes its list in place: every binding to that object sees it
CallerMutates ==
    /\ \E v \in CallerVals \ {caller.obj} :
         /\ caller' = [caller EXCEPT !.obj = v]
         /\ inputs' = [p \in DOMAIN inputs |-> IF p \in caller.shares THEN v ELSE inputs[p]]
    /\ AliasFrame

AliasNext == AliasSetInput \/ AliasUpdate \/ CallerMutates

AliasSpec == AliasInit /\ [][AliasNext]_vars

(***************************************************************************)
(* Two nodes constructed by the same __init__, whose default arguments     *)
(* iterables={} and iterfield=[] are objects made once, and a caller that  *)
(* changes a node's iterfield or iterables in place                        *)
(***************************************************************************)
Nodes == {"self", "other"}

IterableKeys == {"a", "b"}

\* an argument of __init__: given with a value, or left out
IterfieldArg == {[given |-> FALSE, value |-> <<>>]}
                \cup {[given |-> TRUE, value |-> itf] : itf \in IterfieldArgs}

IterablesArg == {[given |-> FALSE, value |-> {}]}
                \cup {[given |-> TRUE, value |-> ks] : ks \in {{}, {"a"}}}

\* lines 64-65: self.iterables = iterables, self.iterfield = iterfield: the
\* object given, or the default object itself
AttrOf(arg, default) ==
    IF arg.given THEN [value |-> arg.value, owned |-> TRUE]
    ELSE [value |-> default, owned |-> FALSE]

Constructed(n) == IF n = "self" THEN phase = "ready" ELSE heap.other.constructed

IterfieldOf(n) == IF n = "self" THEN iterfield ELSE heap.other.iterfield

IterablesOf(n) == heap[n].iterables

Owns(n, attr) == attr \in heap[n].owns

\* the nodes whose attribute is the object node n's attribute is
SameObject(n, attr) ==
    IF Owns(n, attr) THEN {n}
    ELSE {m \in Nodes : Constructed(m) /\ ~Owns(m, attr)}

SharedInit ==
    /\ phase = "new"
    /\ disk_based = FALSE
    /\ overwrite = FALSE
    /\ iterfield = <<>>
    /\ output_directory_base = "None"
    /\ baseExists = FALSE
    /\ inputs = NoInputs
    /\ result = NoResult
    /\ files = ExtPaths
    /\ markers = {}
    /\ outdirExists = FALSE
    /\ lastRun = NoRun
    /\ prevRun = NoPrev
    /\ lastExecFailed = FALSE
    /\ lastGood = NoInputs
    /\ caller = NoCaller
    /\ heap = NoHeap

SharedFrame == UNCHANGED <<disk_based, overwrite, output_directory_base, baseExists,
                           inputs, result, files, markers, outdirExists, lastRun,
                           prevRun, lastExecFailed, lastGood, caller>>

\* NodeWrapper.__init__ of either node, not disk-based, with an interface
SharedConstruct ==
    /\ \E n \in Nodes, itf \in IterfieldArg, itb \in IterablesArg :
         LET f == AttrOf(itf, heap.defaults.iterfield)
             b == AttrOf(itb, heap.defaults.iterables)
             owns == {a \in Attrs : IF a = "iterfield" THEN f.owned ELSE b.owned}
         IN /\ ~Constructed(n)
            /\ IF n = "self"
               THEN /\ phase' = "ready"
                    /\ iterfield' = f.value
                    /\ heap' = [heap EXCEPT !.self = [iterables |-> b.value,
                                                      owns |-> owns]]
               ELSE /\ heap' = [heap EXCEPT !.other = [constructed |-> TRUE,
                                                       iterfield |-> f.value,
                                                       iterables |-> b.value,
                                                       owns |-> owns]]
                    /\ UNCHANGED <<phase, iterfield>>
    /\ SharedFrame

\* node.iterfield.append(name)
MutateIterfield ==
    /\ \E n \in Nodes, name \in Params :
         LET new == Append(IterfieldOf(n), name)
             same == SameObject(n, "iterfield")
         IN /\ Constructed(n)
            /\ Len(IterfieldOf(n)) < MaxIterfield
            /\ iterfield' = IF "self" \in same THEN new ELSE iterfield
            /\ heap' = [heap EXCEPT
                          !.other.iterfield = IF "other" \in same THEN new ELSE @,
                          !.defaults.iterfield = IF Owns(n, "iterfield") THEN @ ELSE new,
                          !.touched = @ \cup {<<n, "iterfield">>}]
    /\ UNCHANGED phase
    /\ SharedFrame

\* node.iterables[key] = values
MutateIterables ==
    /\ \E n \in Nodes, key \in IterableKeys :
         LET new == IterablesOf(n) \cup {key}
             same == SameObject(n, "iterables")
         IN /\ Constructed(n)
            /\ key \notin IterablesOf(n)
            /\ heap' = [heap EXCEPT
                          !.self.iterables = IF "self" \in same THEN new ELSE @,
                          !.other.iterables = IF "other" \in same THEN new ELSE @,
                          !.defaults.iterables = IF Owns(n, "iterables") THEN @ ELSE new,
                          !.touched = @ \cup {<<n, "iterables">>}]
    /\ UNCHANGED <<phase, iterfield>>
    /\ SharedFrame

SharedNext == SharedConstruct \/ MutateIterfield \/ MutateIterables

SharedSpec == SharedInit /\ [][SharedNext]_vars

(***************************************************************************)
(* Properties                                                              *)
(***************************************************************************)
JustRan == lastRun.branch # "none"

OpCount(op) == Cardinality({i \in 1..Len(lastRun.events) : lastRun.events[i].op = op})

\* the interface calls of the last run, in order
CallEvents == SelectSeq(lastRun.events, LAMBDA e : e.op \in {"execute", "aggregate"})

\* the number of interface calls the last run owed: one, or one per element
Owed == IF FansOut(iterfield) THEN Len(Itervals(lastRun.loopVal)) ELSE 1

StagingFailed == lastRun.outcome = "StagingError"

\* two run() calls in a row, the first of which executed and wrote its marker
SecondRunAfterSuccess ==
    /\ JustRan
    /\ prevRun.branch = "execute"
    /\ prevRun.outcome = "returned"

\* C1: on a disk-based node with overwrite off, a run() that directly follows
\* a successful executing run() with unchanged inputs takes the skip branch,
\* does not call execute, writes no marker and returns the same outputs.
C1_IdempotentSkip ==
    (disk_based /\ ~overwrite /\ SecondRunAfterSuccess /\ prevRun.markerWritten)
        => /\ lastRun.branch = "skip"
           /\ lastRun.outcome = "returned"
           /\ OpCount("execute") = 0
           /\ ~lastRun.markerWritten
           /\ result.outputs = prevRun.outputs

\* C2: on a disk-based node without fan-out, once the most recent executing
\* run() has ended with a non-zero return code the output directory holds no
\* marker at all, and no run() takes the skip branch until one executes well.
C2_FailureLeavesNoMarker ==
    (disk_based /\ ~FansOut(iterfield) /\ lastExecFailed)
        => /\ markers = {}
           /\ lastRun.branch # "skip"

C2_Witness ==
    /\ disk_based /\ ~FansOut(iterfield) /\ lastExecFailed
    /\ lastRun.branch = "execute"
    /\ prevRun.branch = "execute" /\ prevRun.markerWritten

\* C3: on a disk-based node with one iterfield, an executing run() returns
\* and writes the marker only if every element's return code is zero, and it
\* fails without a marker as soon as one element's return code is not zero,
\* whatever its sign.
C3_FanOutSuccess ==
    (disk_based /\ FansOut(iterfield) /\ lastRun.branch = "execute" /\ ~StagingFailed)
        => /\ (\A i \in 1..Len(lastRun.rcs) : lastRun.rcs[i] = 0)
                => lastRun.outcome = "returned"
           /\ (\E i \in 1..Len(lastRun.rcs) : lastRun.rcs[i] # 0)
                => (lastRun.outcome # "returned" /\ ~lastRun.markerWritten)

\* the files of the output directory
OutFiles == {f \in files : f.dir = OutDir}

Range(seq) == {seq[i] : i \in 1..Len(seq)}

\* element i of the value the iterfield input had before the loop
ElementOf(val, i) == IF val.kind = "list" THEN Scalar(val.items[i]) ELSE val

C5_OverwriteReruns ==
    (disk_based /\ overwrite /\ SecondRunAfterSuccess)
        => /\ lastRun.events # <<>>
           /\ lastRun.events[1].op = "clean"
           /\ ~StagingFailed
           /\ OpCount("execute") = Owed

\* C6 as stated: in a run() of a disk-based node the directory is cleaned
\* first on a miss and never cleaned on a hit.
C6_Cleaning ==
    (disk_based /\ JustRan)
        => /\ ~lastRun.hit => (lastRun.events # <<>> /\ lastRun.events[1].op = "clean")
           /\ lastRun.hit => OpCount("clean") = 0

\* C6 amended: in a run() of a disk-based node, on a miss, and on a hit with
\* overwrite on, the directory is cleaned of its prior contents before any
\* file is staged and before execute is called: afterwards it holds only what
\* this run staged and the marker this run wrote; on a hit with overwrite off
\* the directory is never cleaned during that run.
C6_CleaningAmended ==
    (disk_based /\ JustRan)
        => IF ~lastRun.hit \/ overwrite
           THEN /\ lastRun.events # <<>>
                /\ lastRun.events[1].op = "clean"
                /\ OpCount("clean") = 1
                /\ ~StagingFailed => OutFiles = Range(inputs.infile.items)
                /\ \A mk \in markers : mk.name = hash_inputs(lastRun.decided)
                /\ Cardinality(markers) <= 1
           ELSE OpCount("clean") = 0

C6_Witness ==
    /\ disk_based /\ JustRan /\ lastRun.hit /\ ~overwrite
    /\ OpCount("clean") = 0
    /\ OutFiles # {}

\* C7: after a run() of a node with one iterfield the iterfield input is bound
\* to the value it had before the loop, scalar or sequence; the interface was
\* called once per element, in order, each call seeing exactly its element.
C7_ShapePreserved ==
    (FansOut(iterfield) /\ JustRan /\ ~StagingFailed)
        => /\ inputs[iterfield[1]] = lastRun.loopVal
           /\ Len(CallEvents) = IF lastRun.loopVal.kind = "list"
                                THEN Len(lastRun.loopVal.items) ELSE 1
           /\ \A i \in 1..Len(CallEvents) :
                CallEvents[i].seen = ElementOf(lastRun.loopVal, i)

C7_Witness ==
    /\ FansOut(iterfield) /\ JustRan /\ ~StagingFailed
    /\ lastRun.loopVal = List(Countdown(MaxLen))
    /\ inputs.x = List(Countdown(MaxLen))
    /\ Len(CallEvents) = MaxLen

\* C8: after a run() over an n-element sequence, an output produced by any
\* element is a sequence of exactly n values, position i holding the value
\* element i produced.
C8_OutputAggregation ==
    (FansOut(iterfield) /\ JustRan /\ \E i \in 1..Len(lastRun.prods) : lastRun.prods[i])
        => /\ Len(result.outputs) = Len(lastRun.prods)
           /\ \A i \in 1..Len(lastRun.prods) :
                lastRun.prods[i] => result.outputs[i] = ElementOf(lastRun.loopVal, i)

\* C9: a run() in which execute reports a non-zero return code fails with the
\* descriptive error, whatever the node's configuration.
C9_FailureIsFatal ==
    (JustRan /\ \E i \in 1..Len(lastRun.rcs) : lastRun.rcs[i] # 0)
        => lastRun.outcome = "StandardError"

\* C10: no node with more than one iterfield name is ever constructed, so
\* none reaches run().
C10_IterfieldArity ==
    phase = "ready" => Len(iterfield) <= 1

\* C11: the output directory of a disk-based node holds at most one marker,
\* and a marker that exists is the one the most recent execute-path run()
\* left on returning: it is named after the hash of, and contains, the
\* serialised inputs that run decided on.
C11_SingleMarker ==
    disk_based =>
        /\ Cardinality(markers) <= 1
        /\ \A mk \in markers : lastGood # NoInputs /\ mk = hashfile_of(lastGood)

\* parameter p was last bound by set_input
BySetInput(p) == caller.setBy[p] \in {"set_input", "producer"}

\* C12: an input bound by set_input, from a value or from a producer's
\* result, keeps the value it was given whatever the caller does to its own
\* object afterwards, and so does hash_inputs().

C12_InputIsolation ==
    /\ \A p \in Params : BySetInput(p) => inputs[p] = caller.given[p]
    /\ (\A p \in Params : BySetInput(p))
         => hash_inputs(inputs) = hash_inputs([inputs EXCEPT !.x = caller.given.x,
                                                             !.infile = caller.given.infile])

C12_Witness ==
    /\ caller.setBy.x = "set_input" /\ caller.setBy.infile = "producer"
    /\ caller.obj # caller.given.x /\ caller.obj # caller.given.infile
    /\ inputs.x = caller.given.x /\ IsList(inputs.x) /\ Len(inputs.x.items) = MaxLen
    /\ inputs.infile = caller.given.infile

\* C13: a node that is not disk-based never resolves or creates an output
\* directory, never cleans or stages, never reads or writes a marker; each of
\* its run() calls, a repeated one included, goes straight to execute, once
\* per owed call, and leaves every input other than the iterfield as it was.
C13_NonDiskBypass ==
    (phase = "ready" /\ ~disk_based) =>
        /\ output_directory_base = "None" /\ ~outdirExists
        /\ files = ExtPaths /\ markers = {}
        /\ inputs.cwd = None
        /\ JustRan =>
             /\ lastRun.branch = "direct" /\ ~lastRun.hit
             /\ Len(lastRun.events) = Owed
             /\ \A i \in 1..Len(lastRun.events) : lastRun.events[i].op = "execute"
             /\ \A p \in DOMAIN inputs :
                  (FansOut(iterfield) => p # iterfield[1]) => inputs[p] = lastRun.decided[p]

C13_Witness ==
    /\ phase = "ready" /\ ~disk_based /\ JustRan
    /\ prevRun.branch = "direct" /\ prevRun.outcome = "returned"
    /\ lastRun.outcome = "returned"
    /\ FansOut(iterfield) /\ Len(lastRun.events) = MaxLen
    /\ inputs.infile # None

\* the file input of the last run as it was before staging
Original == lastRun.decided.infile

\* C14: after a run() that staged, on either path, a file input that was a
\* single path is a single path, and one that was a sequence of k paths,
\* k >= 1, is a sequence of the k staged paths in the same order.
C14_StagingShape ==
    (disk_based /\ JustRan /\ ~StagingFailed /\ Original # None)
        => /\ inputs.infile.kind = Original.kind
           /\ Len(inputs.infile.items) = Len(Original.items)
           /\ \A i \in 1..Len(Original.items) :
                inputs.infile.items[i] = fname_presuffix(Original.items[i], OutDir)

\* C15: a run() on the skip path stages exactly the copies that were
\* missing, all of them before aggregate_outputs is called, leaves every file
\* input bound to paths under the output directory that exist, calls execute
\* not at all and does not clean the directory.
C15_LazyRepair ==
    (JustRan /\ lastRun.branch = "skip")
        => /\ lastRun.outcome = "returned"
           /\ OpCount("execute") = 0 /\ OpCount("clean") = 0
           /\ OpCount("stage") = Cardinality(lastRun.missing)
           /\ lastRun.missing \subseteq files
           /\ \A i, j \in 1..Len(lastRun.events) :
                (lastRun.events[i].op = "stage" /\ lastRun.events[j].op = "aggregate")
                    => i < j
           /\ OpCount("aggregate") = Owed
           /\ inputs.infile.kind = Original.kind
           /\ \A i \in 1..Len(Original.items) :
                /\ inputs.infile.items[i] = fname_presuffix(Original.items[i], OutDir)
                /\ inputs.infile.items[i] \in files

C15_Witness ==
    /\ JustRan /\ lastRun.branch = "skip"
    /\ IsList(Original) /\ Len(Original.items) = MaxFiles
    /\ Cardinality(lastRun.missing) = 1
    /\ OpCount("stage") = 1
    /\ OpCount("aggregate") = Owed

\* C16: a run() of a disk-based node whose output directory could not be
\* created does not carry on: it cleans nothing, stages nothing, calls the
\* interface not at all and returns no Result.
C16_OnlyExistsTolerated ==
    (disk_based /\ JustRan /\ ~outdirExists)
        => /\ lastRun.events = <<>>
           /\ lastRun.outcome # "returned"

\* the last run executed with success and its marker write met an I/O error
MarkerWriteFailed == JustRan /\ lastRun.io \in {"open fails", "write fails"}

\* C17: a run() that executed with success and whose marker write met an I/O
\* error returns the Result and leaves no marker, and the run() that follows
\* a run that returned without its marker written takes the execute path.
C17_MarkerFailureNonFatal ==
    /\ MarkerWriteFailed => (lastRun.outcome = "returned" /\ markers = {})
    /\ (JustRan /\ prevRun.branch = "execute" /\ prevRun.outcome = "returned"
          /\ ~prevRun.markerWritten)
         => lastRun.branch = "execute"

\* C19: in a run() on the execute path every file the file input referred to
\* when run() was called, and that existed then, is still there when it is
\* copied: with the output directory in place, staging does not fail.
C19_SourcesSurviveCleaning ==
    (disk_based /\ JustRan /\ lastRun.branch = "execute" /\ outdirExists
       /\ lastRun.sourcesExisted)
        => ~StagingFailed

\* C18: a node constructed without an explicit iterfield, or iterables, that
\* nobody has changed through that node holds the empty sequence, or mapping,
\* and does not fan out in run(), whatever was done to any other node.
C18_NoSharedDefaults ==
    \A n \in Nodes :
        Constructed(n) =>
            /\ (~Owns(n, "iterfield") /\ <<n, "iterfield">> \notin heap.touched)
                 => (IterfieldOf(n) = <<>> /\ ~FansOut(IterfieldOf(n)))
            /\ (~Owns(n, "iterables") /\ <<n, "iterables">> \notin heap.touched)
                 => IterablesOf(n) = {}

====
